---- MODULE Spec2Model ----
(***************************************************************************)
(* LOGAN agent chat bridge: the polling client (scripts/agent-chat-poll.py) *)
(* and the streaming client (scripts/agent-chat-sse.py), each as a state    *)
(* machine over its program counter, together with the remote application   *)
(* they talk to.                                                            *)
(*                                                                          *)
(* Strings are sequences of one-character strings, so that lower(),         *)
(* substring search, strip(), split() and startswith() are computed.        *)
(***************************************************************************)
EXTENDS Integers, Sequences, FiniteSets, TLC

VARIABLES
    mode,           \* "poll" | "sse": which script runs
    pc,             \* position of the script
    status,         \* what the status query answered ("unknown" before it)
    exitCode,       \* -1 while running, else the process exit status
    interrupted,    \* an external interrupt (SIGINT) has arrived
    registered,     \* register() was attempted
    connected,      \* the SSE urlopen() was attempted
    sent,           \* texts handed to send_message(), in order
    lastSend,       \* what send_message() just returned: "none"|"ok"|"fail"
    dispatched,     \* user messages printed as [user] and answered, in order
    msg,            \* the message being answered
    \* polling mode
    last_ts,        \* the cursor
    since,          \* the since value of the latest fetch (-1: none yet)
    new_msgs,       \* the rest of the batch the for loop iterates
    lastFetch,      \* the latest fetch: "none" | "ok" | "fail"
    \* the remote application (polling side)
    store,          \* its message log
    clock,          \* its clock, in milliseconds
    sinceExclusive, \* whether it answers since as an exclusive bound
    \* streaming mode
    buffer,         \* the frame buffer
    lines,          \* the rest of the lines the for loop iterates
    sockbuf,        \* bytes received by the socket, not yet read
    wire,           \* bytes the remote has written, not yet received
    emitted,        \* number of frames the remote has written
    closed,         \* the remote has closed the stream
    consumed,       \* every byte read so far
    decoded         \* every JSON value decoded so far, in order

vars == <<mode, pc, status, exitCode, interrupted, registered, connected, sent,
          lastSend, dispatched, msg, last_ts, since, new_msgs, lastFetch, store,
          clock,
          sinceExclusive, buffer, lines, sockbuf, wire, emitted, closed,
          consumed, decoded>>

commonVars == <<mode, status, exitCode, interrupted, registered, connected,
                sent, lastSend, dispatched, msg>>
pollVars == <<last_ts, since, new_msgs, lastFetch>>
remoteVars == <<store, clock, sinceExclusive>>
sseVars == <<buffer, lines, consumed, decoded>>
streamVars == <<sockbuf, wire, emitted, closed>>

(***************************************************************************)
(* Bounds of the model.                                                     *)
(***************************************************************************)
MaxMsgs == 2        \* messages the remote log may hold
MaxTime == 2        \* last value of the remote clock
MaxDispatch == 3    \* dispatches after which no further fetch is modelled
MaxFrames == 2      \* frames the remote writes to one stream
SockCap == 2        \* bytes the socket receive buffer may hold

(***************************************************************************)
(* Strings.                                                                 *)
(***************************************************************************)
NL == "\n"
SP == " "
UpperChars == <<"A","B","C","D","E","F","G","H","I","J","K","L","M","N","O","P","Q","R","S","T","U","V","W","X","Y","Z">>
LowerChars == <<"a","b","c","d","e","f","g","h","i","j","k","l","m","n","o","p","q","r","s","t","u","v","w","x","y","z">>

\* The lower-case letter of each upper-case letter.
LowerOf ==
    [c \in {UpperChars[i] : i \in 1..Len(UpperChars)} |->
        LowerChars[CHOOSE i \in 1..Len(UpperChars) : UpperChars[i] = c]]

LowerChar(c) == IF c \in DOMAIN LowerOf THEN LowerOf[c] ELSE c

\* str.lower()
Lower(s) == [i \in 1..Len(s) |-> LowerChar(s[i])]

\* needle in hay
Contains(hay, needle) ==
    \E i \in 0..(Len(hay) - Len(needle)) :
        SubSeq(hay, i + 1, i + Len(needle)) = needle

\* str.startswith / str.endswith
StartsWith(s, p) == Len(s) >= Len(p) /\ SubSeq(s, 1, Len(p)) = p
EndsWith(s, p) == Len(s) >= Len(p) /\ SubSeq(s, Len(s) - Len(p) + 1, Len(s)) = p

DisconnectText == <<"A","g","e","n","t"," ","d","i","s","c","o","n","n","e","c","t","e","d",".">>
AgentName == <<"P","y","t","h","o","n"," ","A","g","e","n","t">>
HelloHead == <<"H","e","l","l","o","!"," ">>
HelloPollTail == <<" ","c","o","n","n","e","c","t","e","d"," ","v","i","a"," ","p","o","l","l","i","n","g",".">>
HelloSseTail == <<" ","c","o","n","n","e","c","t","e","d"," ","v","i","a"," ","S","S","E",".">>
ByeWord == <<"b","y","e">>
GoodbyeWord == <<"g","o","o","d","b","y","e">>

HelloPoll == HelloHead \o AgentName \o HelloPollTail
HelloSse == HelloHead \o AgentName \o HelloSseTail

\* Texts a user may type.
Ping == <<"p","i","n","g">>
SayByeNow == <<"s","a","y"," ","B","Y","E"," ","n","o","w">>
Texts == {Ping, SayByeNow}

(***************************************************************************)
(* The reply policy of each script.                                         *)
(***************************************************************************)
\* agent-chat-poll.py, the condition of line 113
PollIsBye(text) ==
    Contains(Lower(text), GoodbyeWord) \/ Contains(Lower(text), ByeWord)

\* agent-chat-poll.py, the argument of send_message at line 114
PollFarewellText == <<"G","o","o","d","b","y","e","!"," ","D","i","s","c","o","n","n","e","c","t","i","n","g",".">>

\* The reply without the space after the colon.
PollReplyTextNoSpace(text) == <<"R","e","c","e","i","v","e","d",":">> \o text

\* agent-chat-poll.py, the argument of send_message at line 117
PollReplyText(text) == <<"R","e","c","e","i","v","e","d",":"," ">> \o text

\* The condition with its second disjunct left out.
SseIsByeGoodbyeOnly(msg_text) == Contains(Lower(msg_text), GoodbyeWord)

\* agent-chat-sse.py, the condition of line 71
SseIsBye(msg_text) ==
    Contains(Lower(msg_text), GoodbyeWord) \/ Contains(Lower(msg_text), ByeWord)

\* agent-chat-sse.py, the argument of send_message at line 72
SseFarewellText == <<"G","o","o","d","b","y","e","!"," ","D","i","s","c","o","n","n","e","c","t","i","n","g",".">>

\* agent-chat-sse.py, the argument of send_message at line 75
SseReplyText(msg_text) == <<"R","e","c","e","i","v","e","d",":"," ">> \o msg_text

(***************************************************************************)
(* The transport boundary.  api_get and api_post turn every Exception into  *)
(* {"success": False}; KeyboardInterrupt is not an Exception and passes.    *)
(***************************************************************************)
SendOutcomes == {"ok", "fail"}

\* A send that posts the text again when the first POST fails.
SendMessageRetry(text, outcome) ==
    /\ sent' = IF outcome = "fail" THEN Append(Append(sent, text), text)
                                   ELSE Append(sent, text)
    /\ lastSend' = outcome

\* send_message(text): one POST, whose result is printed and returned
SendMessage(text, outcome) ==
    /\ sent' = Append(sent, text)
    /\ lastSend' = outcome

\* The callers drop what send_message returned: after the next statement
\* nothing holds it.
ResultDropped == lastSend' = "none"

\* Leaving the process.
Exit(code) ==
    /\ pc' = "exit"
    /\ exitCode' = code

(***************************************************************************)
(* The remote application, polling side.                                    *)
(***************************************************************************)
Origins == {"user", "agent"}

\* The shapes of a logged message: a user message with either text, an agent
\* message, a user message that lacks its text or its timestamp, or a message
\* that lacks its origin ("none": nothing is lacking, or no origin).
Shapes ==
    {[from |-> "user", text |-> t, lacks |-> "none"] : t \in Texts}
    \cup {[from |-> "agent", text |-> SayByeNow, lacks |-> "none"]}
    \cup {[from |-> "user", text |-> Ping, lacks |-> k] :
              k \in {"text", "timestamp"}}
    \cup {[from |-> "none", text |-> Ping, lacks |-> "from"]}

\* A message is added to the log, stamped with the remote clock.
RemotePost ==
    /\ mode = "poll" /\ pc # "exit"
    /\ Len(store) < MaxMsgs
    /\ \E h \in Shapes :
        store' = Append(store, [id |-> Len(store) + 1, from |-> h.from,
                                text |-> h.text, timestamp |-> clock,
                                lacks |-> h.lacks])
    /\ UNCHANGED <<clock, sinceExclusive>>
    /\ UNCHANGED <<commonVars, pc, pollVars, sseVars, streamVars>>

RemoteTick ==
    /\ mode = "poll" /\ pc # "exit"
    /\ clock < MaxTime
    /\ clock' = clock + 1
    /\ UNCHANGED <<store, sinceExclusive>>
    /\ UNCHANGED <<commonVars, pc, pollVars, sseVars, streamVars>>

\* Messages the remote may list for GET /api/messages?since=s
Eligible(s) ==
    {i \in 1..Len(store) :
        IF sinceExclusive THEN store[i].timestamp > s
                          ELSE store[i].timestamp >= s}

\* Every listing of some of them, in any order.
Batches(s) ==
    {q \in UNION {[1..n -> Eligible(s)] : n \in 0..Cardinality(Eligible(s))} :
        \A i, j \in DOMAIN q : i # j => q[i] # q[j]}

\* The whole log, as listed with a response that reports a failure.
WholeLog == [i \in DOMAIN store |-> store[i]]

\* The decoded responses api_get may return for that request: a transport
\* error or success false (without or with a listing), or a listing.
FetchResults(s) ==
    {[success |-> FALSE, messages |-> <<>>],
     [success |-> FALSE, messages |-> WholeLog]} \cup
    {[success |-> TRUE, messages |-> [i \in DOMAIN q |-> store[q[i]]]] :
        q \in Batches(s)}

(***************************************************************************)
(* agent-chat-poll.py                                                       *)
(***************************************************************************)
\* What GET /api/status may answer: a transport error or success false;
\* a status without filePath; with an empty filePath; with a file open.
StatusAnswers == {"error", "absent", "empty", "open"}

\* check_status(), lines 70-84
PollCheckStatus(a) ==
    IF a = "error" THEN FALSE
    ELSE IF a \in {"absent", "empty"} THEN FALSE
    ELSE TRUE

\* m[key] raises KeyError
Lacks(m, key) == m.lacks = key

\* poll_messages(since), line 67: m["from"] of a listed message raises
PollMessagesRaises(result) ==
    /\ result.success
    /\ \E i \in DOMAIN result.messages : Lacks(result.messages[i], "from")

\* The listing taken without a look at the success member.
PollMessagesUnchecked(result) ==
    SelectSeq(result.messages, LAMBDA m : m.from = "user")

\* poll_messages(since), given the decoded response
PollMessages(result) ==
    IF ~result.success THEN <<>>
    ELSE SelectSeq(result.messages, LAMBDA m : m.from = "user")

\* main, lines 94-97: the bootstrap gate, then the cursor's first value
PollBootstrap ==
    /\ mode = "poll" /\ pc = "start"
    /\ \E a \in StatusAnswers :
        /\ status' = a
        /\ IF PollCheckStatus(a)
           THEN /\ pc' = "register"
                /\ last_ts' = clock
                /\ UNCHANGED exitCode
           ELSE /\ Exit(1)
                /\ UNCHANGED last_ts
    /\ UNCHANGED <<mode, interrupted, registered, connected, sent, lastSend,
                   dispatched, msg, since, new_msgs, lastFetch>>
    /\ UNCHANGED <<remoteVars, sseVars, streamVars>>

\* main, line 99: register(args.name); its result is not looked at
PollRegister ==
    /\ mode = "poll" /\ pc = "register"
    /\ registered' = TRUE
    /\ pc' = "hello"
    /\ UNCHANGED <<mode, status, exitCode, interrupted, connected, sent,
                   lastSend, dispatched, msg>>
    /\ UNCHANGED <<pollVars, remoteVars, sseVars, streamVars>>

\* main, line 100
PollHello ==
    /\ mode = "poll" /\ pc = "hello"
    /\ \E o \in SendOutcomes : SendMessage(HelloPoll, o)
    /\ pc' = "sleep"
    /\ UNCHANGED <<mode, status, exitCode, interrupted, registered, connected,
                   dispatched, msg>>
    /\ UNCHANGED <<pollVars, remoteVars, sseVars, streamVars>>

\* main, lines 106-108: sleep, fetch, enter the for loop; a KeyError raised
\* in poll_messages is caught nowhere and ends the process with status 1
PollFetch ==
    /\ mode = "poll" /\ pc = "sleep"
    /\ Len(dispatched) < MaxDispatch
    /\ since' = last_ts
    /\ \E r \in FetchResults(last_ts) :
        /\ lastFetch' = IF r.success THEN "ok" ELSE "fail"
        /\ IF PollMessagesRaises(r)
           THEN /\ Exit(1)
                /\ UNCHANGED new_msgs
           ELSE /\ new_msgs' = PollMessages(r)
                /\ pc' = IF PollMessages(r) = <<>> THEN "sleep" ELSE "iter"
                /\ UNCHANGED exitCode
    /\ ResultDropped
    /\ UNCHANGED <<mode, status, interrupted, registered, connected, sent,
                   dispatched, msg, last_ts>>
    /\ UNCHANGED <<remoteVars, sseVars, streamVars>>

\* main, lines 108-113: take the next message, move the cursor, print it;
\* msg["timestamp"] (line 109) or msg["text"] (line 110) may raise KeyError
PollNext ==
    /\ mode = "poll" /\ pc = "iter"
    /\ LET m == Head(new_msgs)
       IN /\ new_msgs' = Tail(new_msgs)
          /\ IF Lacks(m, "timestamp")
             THEN /\ Exit(1)
                  /\ UNCHANGED <<last_ts, msg, dispatched>>
             ELSE /\ last_ts' = m.timestamp
                  /\ IF Lacks(m, "text")
                     THEN /\ Exit(1)
                          /\ UNCHANGED <<msg, dispatched>>
                     ELSE /\ msg' = m
                          /\ dispatched' = Append(dispatched, m)
                          /\ pc' = IF PollIsBye(m.text)
                                   THEN "farewell" ELSE "reply"
                          /\ UNCHANGED exitCode
    /\ ResultDropped
    /\ UNCHANGED <<mode, status, interrupted, registered, connected,
                   sent, since, lastFetch>>
    /\ UNCHANGED <<remoteVars, sseVars, streamVars>>

\* The farewell is sent and the loop goes on with the batch.
PollFarewellNoReturn ==
    /\ mode = "poll" /\ pc = "farewell"
    /\ \E o \in SendOutcomes : SendMessage(PollFarewellText, o)
    /\ pc' = IF new_msgs = <<>> THEN "sleep" ELSE "iter"
    /\ UNCHANGED <<mode, status, exitCode, interrupted, registered, connected,
                   dispatched, msg>>
    /\ UNCHANGED <<pollVars, remoteVars, sseVars, streamVars>>

\* main, line 114: the farewell
PollFarewell ==
    /\ mode = "poll" /\ pc = "farewell"
    /\ \E o \in SendOutcomes : SendMessage(PollFarewellText, o)
    /\ pc' = "return"
    /\ UNCHANGED <<mode, status, exitCode, interrupted, registered, connected,
                   dispatched, msg>>
    /\ UNCHANGED <<pollVars, remoteVars, sseVars, streamVars>>

\* main, line 115: return; the process ends with status 0
PollReturn ==
    /\ mode = "poll" /\ pc = "return"
    /\ Exit(0)
    /\ ResultDropped
    /\ UNCHANGED <<mode, status, interrupted, registered, connected, sent,
                   dispatched, msg>>
    /\ UNCHANGED <<pollVars, remoteVars, sseVars, streamVars>>

\* main, line 117: the echo reply, then the next message or the next cycle
PollReply ==
    /\ mode = "poll" /\ pc = "reply"
    /\ \E o \in SendOutcomes : SendMessage(PollReplyText(msg.text), o)
    /\ pc' = IF new_msgs = <<>> THEN "sleep" ELSE "iter"
    /\ UNCHANGED <<mode, status, exitCode, interrupted, registered, connected,
                   dispatched, msg>>
    /\ UNCHANGED <<pollVars, remoteVars, sseVars, streamVars>>

\* Lines 104-118 are the body of the try statement.
PollInTry == pc \in {"sleep", "iter", "reply", "farewell", "return"}

\* SIGINT inside the try: KeyboardInterrupt reaches the handler of line 119
PollInterruptCaught ==
    /\ mode = "poll" /\ PollInTry
    /\ interrupted' = TRUE
    /\ pc' = "disconnect"
    /\ ResultDropped
    /\ UNCHANGED <<mode, status, exitCode, registered, connected, sent,
                   dispatched, msg>>
    /\ UNCHANGED <<pollVars, remoteVars, sseVars, streamVars>>

\* SIGINT at lines 97-102 or inside the handler: nothing catches it
PollInterruptUncaught ==
    /\ mode = "poll" /\ pc \in {"register", "hello", "disconnect"}
    /\ interrupted' = TRUE
    /\ Exit(130)
    /\ ResultDropped
    /\ UNCHANGED <<mode, status, registered, connected, sent,
                   dispatched, msg>>
    /\ UNCHANGED <<pollVars, remoteVars, sseVars, streamVars>>

\* main, lines 119-121: the disconnect notice, then main returns
PollDisconnect ==
    /\ mode = "poll" /\ pc = "disconnect"
    /\ \E o \in SendOutcomes : SendMessage(DisconnectText, o)
    /\ Exit(0)
    /\ UNCHANGED <<mode, status, interrupted, registered, connected,
                   dispatched, msg>>
    /\ UNCHANGED <<pollVars, remoteVars, sseVars, streamVars>>

NoMsg ==
    [id |-> 0, from |-> "user", text |-> <<>>, timestamp |-> 0, lacks |-> "none"]

InitCommon ==
    /\ pc = "start"
    /\ status = "unknown"
    /\ exitCode = -1
    /\ interrupted = FALSE
    /\ registered = FALSE
    /\ connected = FALSE
    /\ sent = <<>>
    /\ lastSend = "none"
    /\ dispatched = <<>>
    /\ msg = NoMsg
    /\ last_ts = 0
    /\ since = -1
    /\ new_msgs = <<>>
    /\ lastFetch = "none"
    /\ store = <<>>
    /\ clock = 0
    /\ buffer = <<>>
    /\ lines = <<>>
    /\ sockbuf = <<>>
    /\ wire = <<>>
    /\ emitted = 0
    /\ closed = FALSE
    /\ consumed = <<>>
    /\ decoded = <<>>

InitPoll ==
    /\ mode = "poll"
    /\ sinceExclusive \in BOOLEAN
    /\ InitCommon

NextPoll ==
    \/ RemotePost
    \/ RemoteTick
    \/ PollBootstrap
    \/ PollRegister
    \/ PollHello
    \/ PollFetch
    \/ PollNext
    \/ PollFarewell
    \/ PollReturn
    \/ PollReply
    \/ PollInterruptCaught
    \/ PollInterruptUncaught
    \/ PollDisconnect

SpecPoll == InitPoll /\ [][NextPoll]_vars

\* The steps of the script itself: it is a running process, so a statement
\* that can be executed is executed; the remote and the interrupt are not
\* obliged to act.
PollStep ==
    \/ PollBootstrap
    \/ PollRegister
    \/ PollHello
    \/ PollFetch
    \/ PollNext
    \/ PollFarewell
    \/ PollReturn
    \/ PollReply
    \/ PollDisconnect

SpecPollFair == SpecPoll /\ WF_vars(PollStep)

(***************************************************************************)
(* The byte stream of GET /api/events.  The framing characters (the prefix  *)
(* "data: ", space, newline, ":") are one symbol per byte.  JSON text is    *)
(* modelled token by token: "{", "}", "," and one symbol per member:        *)
(*   "U"  "from":"user"     "A"  "from":"agent"    "N"  "name":"..."        *)
(*   "P"  "text":"ping"     "B"  "text":"say BYE now"                       *)
(* and "7", a JSON number.                                                  *)
(***************************************************************************)
DataPrefix == <<"d","a","t","a",":"," ">>
Whitespace == {SP, NL}
Members == {"U", "A", "N", "P", "B"}

JsonError ==
    [ok |-> FALSE, isDict |-> FALSE, from |-> "", hasText |-> FALSE,
     text |-> <<>>, hasName |-> FALSE]
JsonNumber ==
    [ok |-> TRUE, isDict |-> FALSE, from |-> "", hasText |-> FALSE,
     text |-> <<>>, hasName |-> FALSE]

\* The value of a member list; a repeated key keeps its last value.
RECURSIVE DictOf(_)
DictOf(ms) ==
    IF ms = <<>>
    THEN [ok |-> TRUE, isDict |-> TRUE, from |-> "", hasText |-> FALSE,
          text |-> <<>>, hasName |-> FALSE]
    ELSE LET d == DictOf(SubSeq(ms, 1, Len(ms) - 1))
             m == ms[Len(ms)]
         IN CASE m = "U" -> [d EXCEPT !.from = "user"]
              [] m = "A" -> [d EXCEPT !.from = "agent"]
              [] m = "N" -> [d EXCEPT !.hasName = TRUE]
              [] m = "P" -> [d EXCEPT !.hasText = TRUE, !.text = Ping]
              [] m = "B" -> [d EXCEPT !.hasText = TRUE, !.text = SayByeNow]

\* json.loads(s): the value, or JsonError where it raises JSONDecodeError.
\* Whitespace around tokens is not significant.
JsonLoads(s) ==
    LET q == SelectSeq(s, LAMBDA c : c \notin Whitespace)
        inner == SubSeq(q, 2, Len(q) - 1)
    IN  IF q = <<"7">> THEN JsonNumber
        ELSE IF Len(q) >= 2 /\ q[1] = "{" /\ q[Len(q)] = "}"
                /\ (inner = <<>> \/
                    /\ Len(inner) % 2 = 1
                    /\ \A i \in 1..Len(inner) :
                         IF i % 2 = 1 THEN inner[i] \in Members
                                      ELSE inner[i] = ",")
        THEN DictOf(SelectSeq(inner, LAMBDA c : c \in Members))
        ELSE JsonError

\* str.strip()
RECURSIVE LStrip(_)
LStrip(s) ==
    IF s # <<>> /\ Head(s) \in Whitespace THEN LStrip(Tail(s)) ELSE s
RECURSIVE RStrip(_)
RStrip(s) ==
    IF s # <<>> /\ s[Len(s)] \in Whitespace
    THEN RStrip(SubSeq(s, 1, Len(s) - 1)) ELSE s
Strip(s) == RStrip(LStrip(s))

\* str.split("\n")
RECURSIVE Split(_)
Split(s) ==
    IF \A i \in 1..Len(s) : s[i] # NL THEN <<s>>
    ELSE LET i == CHOOSE k \in 1..Len(s) :
                    s[k] = NL /\ \A j \in 1..(k - 1) : s[j] # NL
         IN <<SubSeq(s, 1, i - 1)>> \o Split(SubSeq(s, i + 1, Len(s)))

(***************************************************************************)
(* The remote application, streaming side: what it writes to the stream.    *)
(***************************************************************************)
DataLine(payload) == DataPrefix \o payload \o <<NL>>
UserPing == <<"{", "U", ",", "P", "}">>
UserBye == <<"{", "U", ",", "B", "}">>

FrameUserPing == DataLine(UserPing) \o <<NL>>
FrameUserBye == DataLine(UserBye) \o <<NL>>
FrameAck == DataLine(<<"{", "N", "}">>) \o <<NL>>
FrameAgent == <<":", NL>> \o DataLine(<<"{", "A", ",", "P", "}">>) \o <<NL>>
FrameSplit == DataLine(<<"{", "U", ",">>) \o DataLine(<<"P", "}">>) \o <<NL>>
FrameBad == DataLine(<<"{", "U">>) \o <<NL>>
FrameNumber == DataLine(<<"7">>) \o <<NL>>
\* a user-origin object that has no text member
FrameUserNoText == DataLine(<<"{", "U", "}">>) \o <<NL>>
\* a data line whose blank line has not been written yet
LineOpen == DataLine(UserPing)

Writes == {FrameUserPing, FrameUserBye, FrameAck, FrameAgent, FrameSplit,
           FrameBad, FrameNumber, FrameUserNoText, LineOpen}

\* The stream exists from the connect to the end of the process.
SseStreamOpen == pc \in {"read", "lines", "reply", "farewell", "return", "disconnect"}

RemoteWrite ==
    /\ mode = "sse" /\ SseStreamOpen
    /\ ~closed /\ wire = <<>> /\ emitted < MaxFrames
    /\ \E f \in Writes : wire' = f
    /\ emitted' = emitted + 1
    /\ UNCHANGED <<sockbuf, closed>>
    /\ UNCHANGED <<commonVars, pc, pollVars, remoteVars, sseVars>>

\* The network hands the socket the next bytes, in a chunk of any size.
NetDeliver ==
    /\ mode = "sse" /\ pc # "exit"
    /\ \E k \in 1..Len(wire) :
        /\ Len(sockbuf) + k <= SockCap
        /\ sockbuf' = sockbuf \o SubSeq(wire, 1, k)
        /\ wire' = SubSeq(wire, k + 1, Len(wire))
    /\ UNCHANGED <<emitted, closed>>
    /\ UNCHANGED <<commonVars, pc, pollVars, remoteVars, sseVars>>

RemoteClose ==
    /\ mode = "sse" /\ SseStreamOpen
    /\ ~closed /\ wire = <<>>
    /\ closed' = TRUE
    /\ UNCHANGED <<sockbuf, wire, emitted>>
    /\ UNCHANGED <<commonVars, pc, pollVars, remoteVars, sseVars>>

(***************************************************************************)
(* agent-chat-sse.py                                                        *)
(***************************************************************************)
\* The gate testing that the key is there, not that its value is non-empty.
SseCheckStatusKeyOnly(a) == a \notin {"error", "absent"}

\* check_status(), lines 54-66
SseCheckStatus(a) ==
    IF a = "error" THEN FALSE
    ELSE IF a \in {"absent", "empty"} THEN FALSE
    ELSE TRUE

\* main, lines 125-126
SseBootstrap ==
    /\ mode = "sse" /\ pc = "start"
    /\ \E a \in StatusAnswers :
        /\ status' = a
        /\ IF SseCheckStatus(a)
           THEN pc' = "hello" /\ UNCHANGED exitCode
           ELSE Exit(1)
    /\ UNCHANGED <<mode, interrupted, registered, connected, sent, lastSend,
                   dispatched, msg>>
    /\ UNCHANGED <<pollVars, remoteVars, sseVars, streamVars>>

\* main, line 128
SseHello ==
    /\ mode = "sse" /\ pc = "hello"
    /\ \E o \in SendOutcomes : SendMessage(HelloSse, o)
    /\ pc' = "connect"
    /\ UNCHANGED <<mode, status, exitCode, interrupted, registered, connected,
                   dispatched, msg>>
    /\ UNCHANGED <<pollVars, remoteVars, sseVars, streamVars>>

\* listen_sse, lines 80-91: open the stream, or exit(1)
SseConnect ==
    /\ mode = "sse" /\ pc = "connect"
    /\ connected' = TRUE
    /\ \/ pc' = "read" /\ UNCHANGED exitCode
       \/ Exit(1)
    /\ ResultDropped
    /\ UNCHANGED <<mode, status, interrupted, registered, sent,
                   dispatched, msg>>
    /\ UNCHANGED <<pollVars, remoteVars, sseVars, streamVars>>

\* A read of everything the socket holds.
ReadChunkAll(sb) == sb

\* resp.read(1), given the bytes the socket holds
ReadChunk(sb) == SubSeq(sb, 1, 1)

\* A frame taken as complete at its first newline.
FrameCompleteAtNewline(buf) == EndsWith(buf, <<NL>>)

\* listen_sse, line 99: buffer.endswith("\n\n")
FrameComplete(buf) == EndsWith(buf, <<NL, NL>>)

\* listen_sse, lines 94-100: read, append, and split a finished frame
SseReadByte ==
    /\ mode = "sse" /\ pc = "read"
    /\ sockbuf # <<>>
    /\ LET chunk == ReadChunk(sockbuf)
           buf == buffer \o chunk
       IN /\ sockbuf' = SubSeq(sockbuf, Len(chunk) + 1, Len(sockbuf))
          /\ consumed' = consumed \o chunk
          /\ buffer' = buf
          /\ IF FrameComplete(buf)
             THEN lines' = Split(Strip(buf)) /\ pc' = "lines"
             ELSE UNCHANGED <<lines, pc>>
    /\ UNCHANGED <<wire, emitted, closed, decoded>>
    /\ ResultDropped
    /\ UNCHANGED <<mode, status, exitCode, interrupted, registered, connected,
                   sent, dispatched, msg>>
    /\ UNCHANGED <<pollVars, remoteVars>>

\* The end of stream taken to the handler of the interrupt: the disconnect
\* notice is sent before the return.
SseReadEofNotice ==
    /\ mode = "sse" /\ pc = "read"
    /\ sockbuf = <<>> /\ wire = <<>> /\ closed
    /\ \E o \in SendOutcomes : SendMessage(DisconnectText, o)
    /\ Exit(0)
    /\ UNCHANGED <<mode, status, interrupted, registered, connected,
                   dispatched, msg>>
    /\ UNCHANGED <<pollVars, remoteVars, sseVars, streamVars>>

\* listen_sse, lines 94-96: end of stream; listen_sse and main return
SseReadEof ==
    /\ mode = "sse" /\ pc = "read"
    /\ sockbuf = <<>> /\ wire = <<>> /\ closed
    /\ Exit(0)
    /\ ResultDropped
    /\ UNCHANGED <<mode, status, interrupted, registered, connected, sent,
                   dispatched, msg>>
    /\ UNCHANGED <<pollVars, remoteVars, sseVars, streamVars>>

\* The end of the for loop without the reset of the buffer.
FrameDoneKeepBuffer(rest) ==
    IF rest = <<>>
    THEN pc' = "read" /\ UNCHANGED buffer
    ELSE pc' = "lines" /\ UNCHANGED buffer

\* listen_sse, line 111 and back to line 93, once the for loop is done
FrameDone(rest) ==
    IF rest = <<>>
    THEN buffer' = <<>> /\ pc' = "read"
    ELSE pc' = "lines" /\ UNCHANGED buffer

\* listen_sse, lines 100-110 and handle_message, line 71: one line of the frame
SseLine ==
    /\ mode = "sse" /\ pc = "lines"
    /\ LET line == Head(lines)
           data == JsonLoads(SubSeq(line, Len(DataPrefix) + 1, Len(line)))
       IN /\ lines' = Tail(lines)
          /\ IF ~StartsWith(line, DataPrefix) \/ ~data.ok
             THEN /\ FrameDone(Tail(lines))
                  /\ UNCHANGED <<decoded, dispatched, msg, exitCode>>
             ELSE /\ decoded' = Append(decoded, data)
                  /\ IF data.isDict /\ data.from = "user"
                     THEN IF data.hasText
                          THEN /\ dispatched' = Append(dispatched, data)
                               /\ msg' = data
                               /\ pc' = IF SseIsBye(data.text)
                                        THEN "farewell" ELSE "reply"
                               /\ UNCHANGED <<buffer, exitCode>>
                          ELSE \* data["text"] raises KeyError
                               /\ Exit(1)
                               /\ UNCHANGED <<buffer, dispatched, msg>>
                     ELSE /\ FrameDone(Tail(lines))
                          /\ UNCHANGED <<dispatched, msg, exitCode>>
    /\ ResultDropped
    /\ UNCHANGED <<mode, status, interrupted, registered, connected, sent,
                   consumed>>
    /\ UNCHANGED <<pollVars, remoteVars, streamVars>>

\* handle_message, line 75, then the next line or the next read
SseReply ==
    /\ mode = "sse" /\ pc = "reply"
    /\ \E o \in SendOutcomes : SendMessage(SseReplyText(msg.text), o)
    /\ FrameDone(lines)
    /\ UNCHANGED <<mode, status, exitCode, interrupted, registered, connected,
                   dispatched, msg, lines, consumed, decoded>>
    /\ UNCHANGED <<pollVars, remoteVars, streamVars>>

\* handle_message, line 72: the farewell
SseFarewell ==
    /\ mode = "sse" /\ pc = "farewell"
    /\ \E o \in SendOutcomes : SendMessage(SseFarewellText, o)
    /\ pc' = "return"
    /\ UNCHANGED <<mode, status, exitCode, interrupted, registered, connected,
                   dispatched, msg>>
    /\ UNCHANGED <<pollVars, remoteVars, sseVars, streamVars>>

\* handle_message, line 73: sys.exit(0); no handler catches SystemExit
SseSysExit ==
    /\ mode = "sse" /\ pc = "return"
    /\ Exit(0)
    /\ ResultDropped
    /\ UNCHANGED <<mode, status, interrupted, registered, connected, sent,
                   dispatched, msg>>
    /\ UNCHANGED <<pollVars, remoteVars, sseVars, streamVars>>

\* Lines 93-111 are the body of the try statement.
SseInTry == pc \in {"read", "lines", "reply", "farewell", "return"}

\* SIGINT inside the try: KeyboardInterrupt reaches the handler of line 113
SseInterruptCaught ==
    /\ mode = "sse" /\ SseInTry
    /\ interrupted' = TRUE
    /\ pc' = "disconnect"
    /\ ResultDropped
    /\ UNCHANGED <<mode, status, exitCode, registered, connected, sent,
                   dispatched, msg>>
    /\ UNCHANGED <<pollVars, remoteVars, sseVars, streamVars>>

\* SIGINT at line 128, in urlopen at line 84, or inside the handler
SseInterruptUncaught ==
    /\ mode = "sse" /\ pc \in {"hello", "connect", "disconnect"}
    /\ interrupted' = TRUE
    /\ Exit(130)
    /\ ResultDropped
    /\ UNCHANGED <<mode, status, registered, connected, sent,
                   dispatched, msg>>
    /\ UNCHANGED <<pollVars, remoteVars, sseVars, streamVars>>

\* listen_sse, lines 113-115: the disconnect notice, then return
SseDisconnect ==
    /\ mode = "sse" /\ pc = "disconnect"
    /\ \E o \in SendOutcomes : SendMessage(DisconnectText, o)
    /\ Exit(0)
    /\ UNCHANGED <<mode, status, interrupted, registered, connected,
                   dispatched, msg>>
    /\ UNCHANGED <<pollVars, remoteVars, sseVars, streamVars>>

InitSse ==
    /\ mode = "sse"
    /\ sinceExclusive = TRUE
    /\ InitCommon

NextSse ==
    \/ RemoteWrite
    \/ NetDeliver
    \/ RemoteClose
    \/ SseBootstrap
    \/ SseHello
    \/ SseConnect
    \/ SseReadByte
    \/ SseReadEof
    \/ SseLine
    \/ SseReply
    \/ SseFarewell
    \/ SseSysExit
    \/ SseInterruptCaught
    \/ SseInterruptUncaught
    \/ SseDisconnect

SpecSse == InitSse /\ [][NextSse]_vars

Init == InitPoll \/ InitSse
Next == NextPoll \/ NextSse
Spec == Init /\ [][Next]_vars

(***************************************************************************)
(* Vocabulary of the properties.                                            *)
(***************************************************************************)
Range(q) == {q[i] : i \in DOMAIN q}

\* The termination rule: "bye" or "goodbye" anywhere, in any case; tabulated
\* over the texts a user may type.
ByeRule ==
    [t \in Texts |->
        Contains(Lower(t), ByeWord) \/ Contains(Lower(t), GoodbyeWord)]
IsByeText(t) == ByeRule[t]

FarewellText == <<"G","o","o","d","b","y","e","!"," ","D","i","s","c","o","n","n","e","c","t","i","n","g",".">>
EchoText(t) == <<"R","e","c","e","i","v","e","d",":"," ">> \o t

\* The disconnect notice, once sent, is the last send of the process.
NoticeSent == sent # <<>> /\ sent[Len(sent)] = DisconnectText

\* Sends that answer a dispatched message: all but the hello and the notice.
NReplies ==
    IF sent = <<>> THEN 0
    ELSE Len(sent) - 1 - (IF NoticeSent THEN 1 ELSE 0)

\* The script is between a dispatch and the send that answers it.
AnswerPending == pc \in {"reply", "farewell"}

\* Index of the second newline of the first "\n\n" of s; 0 if there is none.
FirstTerminator(s) ==
    IF \E i \in 2..Len(s) : s[i - 1] = NL /\ s[i] = NL
    THEN CHOOSE i \in 2..Len(s) :
            /\ s[i - 1] = NL /\ s[i] = NL
            /\ \A j \in 2..(i - 1) : ~(s[j - 1] = NL /\ s[j] = NL)
    ELSE 0

\* The complete frames of a byte sequence, each with its terminator.
RECURSIVE FramesOf(_)
FramesOf(s) ==
    LET i == FirstTerminator(s)
    IN IF i = 0 THEN <<>>
       ELSE <<SubSeq(s, 1, i)>> \o FramesOf(SubSeq(s, i + 1, Len(s)))

\* The payload of a data line.
Payload(line) == SubSeq(line, Len(DataPrefix) + 1, Len(line))

\* Fed a frame in one piece: the values its data lines decode to, line by line.
RECURSIVE LineValues(_)
LineValues(ls) ==
    IF ls = <<>> THEN <<>>
    ELSE (IF StartsWith(Head(ls), DataPrefix) /\ JsonLoads(Payload(Head(ls))).ok
          THEN <<JsonLoads(Payload(Head(ls)))>> ELSE <<>>)
         \o LineValues(Tail(ls))

RECURSIVE Flatten(_)
Flatten(qs) == IF qs = <<>> THEN <<>> ELSE Head(qs) \o Flatten(Tail(qs))

\* The events of a byte sequence fed in one piece, frame after frame.
OnePieceEvents(s) ==
    Flatten([k \in DOMAIN FramesOf(s) |->
                LineValues(Split(Strip(FramesOf(s)[k])))])

IsPrefix(p, q) == Len(p) <= Len(q) /\ SubSeq(q, 1, Len(p)) = p

\* The framing of the specification: the payloads of the data lines of a
\* frame, concatenated.
FrameLines(f) == Split(SubSeq(f, 1, Len(f) - 2))
FramePayload(f) ==
    Flatten([k \in DOMAIN FrameLines(f) |->
                IF StartsWith(FrameLines(f)[k], DataPrefix)
                THEN Payload(FrameLines(f)[k]) ELSE <<>>])
HasDataLine(f) ==
    \E k \in DOMAIN FrameLines(f) : StartsWith(FrameLines(f)[k], DataPrefix)

\* One value per frame whose concatenated payload is JSON.
FrameEvents(s) ==
    Flatten([k \in DOMAIN FramesOf(s) |->
                IF HasDataLine(FramesOf(s)[k])
                   /\ JsonLoads(FramePayload(FramesOf(s)[k])).ok
                THEN <<JsonLoads(FramePayload(FramesOf(s)[k]))>> ELSE <<>>])

(***************************************************************************)
(* The claims.                                                              *)
(***************************************************************************)

\* C1: polling mode, cursor monotonicity: whatever the fetches return (here
\* even from a remote that answers since as an exclusive lower bound), no
\* step of the script moves the cursor last_ts backward.
C1_CursorNeverMovesBack ==
    [][(mode = "poll" /\ sinceExclusive) => last_ts' >= last_ts]_vars

\* C2: polling mode, no duplicate delivery: with a remote that answers since
\* as an exclusive lower bound, no message of the log is dispatched twice.
C2_NoDuplicateDelivery ==
    (mode = "poll" /\ sinceExclusive) =>
        \A i, j \in DOMAIN dispatched :
            i # j => dispatched[i].id # dispatched[j].id

\* C3: streaming mode, chunk-invariance: however the network chunks the
\* bytes, the values decoded so far are those of the bytes read so far fed in
\* one piece (all of them between frames, a prefix of them inside a frame).
C3_ChunkInvariance ==
    mode = "sse" =>
        /\ IsPrefix(decoded, OnePieceEvents(consumed))
        /\ pc = "read" => decoded = OnePieceEvents(consumed)

\* C3 witness: a frame has been decoded while a chunk of two bytes waits in
\* the socket and a second frame is on its way.
C3_Witness ==
    /\ mode = "sse" /\ pc = "read"
    /\ decoded # <<>>
    /\ Len(sockbuf) >= 2 /\ emitted >= 2

\* C4: streaming mode, one JSON value per frame: the values decoded from the
\* frames read so far are, frame by frame, the one value that the concatenated
\* payloads of the frame's data lines parse to.
C4_OneValuePerFrame ==
    (mode = "sse" /\ pc = "read") => decoded = FrameEvents(consumed)

\* C5: termination protocol: a dispatched message that matches the rule is
\* the last one dispatched, is answered by the farewell and by nothing else,
\* and the script then only leaves; the farewell is sent at most once, only
\* for such a message, and unless an interrupt arrives it is the last send.
C5_FarewellThenTerminated ==
    /\ \A i \in DOMAIN dispatched :
        IsByeText(dispatched[i].text) =>
            /\ i = Len(dispatched)
            /\ pc \in {"farewell", "return", "disconnect", "exit"}
            /\ (pc \in {"return", "exit"} /\ ~interrupted) =>
                  /\ Len(sent) = i + 1
                  /\ sent[i + 1] = FarewellText
            /\ pc = "exit" /\ ~interrupted => exitCode = 0
    /\ Cardinality({k \in DOMAIN sent : sent[k] = FarewellText}) <= 1
    /\ FarewellText \in Range(sent) =>
            /\ dispatched # <<>>
            /\ IsByeText(dispatched[Len(dispatched)].text)
            /\ pc \in {"return", "disconnect", "exit"}
            /\ ~interrupted => sent[Len(sent)] = FarewellText

\* C5 witness: a session that ended by the farewell, in either mode, after an
\* earlier message was answered.
C5_Witness ==
    /\ pc = "exit" /\ ~interrupted
    /\ Len(dispatched) >= 2
    /\ IsByeText(dispatched[Len(dispatched)].text)
    /\ sent[Len(sent)] = FarewellText

\* C6: default reply: the k-th send after the hello answers the k-th
\* dispatched message; for a message that does not match the termination rule
\* it is "Received: " and the text; every dispatched message has its one
\* answer unless that answer is being sent or an interrupt came first; and the
\* step that sends the reply leaves the script in its loop.
C6_StateInv ==
    /\ NReplies <= Len(dispatched)
    /\ NReplies >= Len(dispatched) - 1
    /\ NReplies = Len(dispatched) - 1 => (AnswerPending \/ interrupted)
    /\ \A i \in 1..NReplies :
        ~IsByeText(dispatched[i].text) => sent[i + 1] = EchoText(dispatched[i].text)
C6_DefaultReply ==
    /\ []C6_StateInv
    /\ [][(pc = "reply" /\ pc' # "reply" /\ ~interrupted') =>
            /\ sent' = Append(sent, EchoText(msg.text))
            /\ pc' \in {"sleep", "iter", "read", "lines"}
            /\ exitCode' = -1]_vars

\* C6 witness: two replies have been sent and the script waits in its loop.
C6_Witness ==
    /\ pc \in {"sleep", "read"} /\ ~interrupted
    /\ Len(dispatched) = 2 /\ Len(sent) = 3
    /\ sent[3] = EchoText(Ping)

\* C7: bootstrap gate: when the status query fails or reports no open file,
\* nothing is registered, sent, fetched or connected, nothing is dispatched,
\* and the process has exited with status 1.
C7_BootstrapGate ==
    status \in {"error", "absent", "empty"} =>
        /\ pc = "exit" /\ exitCode = 1
        /\ ~registered /\ ~connected
        /\ sent = <<>> /\ dispatched = <<>>
        /\ since = -1 /\ consumed = <<>>

\* C7 witness: a run whose status answer carried an empty filePath.
C7_Witness == status = "empty" /\ pc = "exit"

\* The decision and the answer of each script, tabulated over the texts a
\* user may type, and those of the script that is not running.
PollDecides == [t \in Texts |-> PollIsBye(t)]
SseDecides == [t \in Texts |-> SseIsBye(t)]
PollAnswers ==
    [t \in Texts |-> IF PollIsBye(t) THEN PollFarewellText ELSE PollReplyText(t)]
SseAnswers ==
    [t \in Texts |-> IF SseIsBye(t) THEN SseFarewellText ELSE SseReplyText(t)]
OtherIsBye(t) == IF mode = "poll" THEN SseDecides[t] ELSE PollDecides[t]
OtherAnswer(t) == IF mode = "poll" THEN SseAnswers[t] ELSE PollAnswers[t]

\* C8: transport independence: each script answers the messages dispatched
\* to it with the texts the other script would send for them, and decides to
\* terminate exactly where the other script would.
C8_TransportIndependence ==
    /\ \A i \in 1..NReplies : sent[i + 1] = OtherAnswer(dispatched[i].text)
    /\ \A i \in DOMAIN dispatched :
        OtherIsBye(dispatched[i].text) => i = Len(dispatched)
    /\ pc = "farewell" => OtherIsBye(msg.text)
    /\ pc = "reply" => ~OtherIsBye(msg.text)

\* C8 witness: the streaming script has answered one message and said farewell
\* to the next.
C8_Witness ==
    /\ mode = "sse" /\ pc = "exit" /\ ~interrupted
    /\ Len(dispatched) = 2 /\ Len(sent) = 3

\* C9: interrupt handling: a process that was interrupted and has exited has
\* attempted the disconnect notice.
C9_InterruptSendsNotice ==
    (interrupted /\ pc = "exit") => DisconnectText \in Range(sent)

\* C10: streaming mode, malformed frame: as long as every frame read so far
\* has a data payload that is not JSON, nothing was decoded, nothing was
\* dispatched and nothing was sent in answer.
C10_MalformedFrameDropped ==
    (mode = "sse"
       /\ \A k \in DOMAIN FramesOf(consumed) :
            ~JsonLoads(FramePayload(FramesOf(consumed)[k])).ok) =>
        /\ decoded = <<>>
        /\ dispatched = <<>>
        /\ NReplies = 0

\* C10, the part the script does meet: as long as every frame read so far has
\* at most one data line and that line's payload is not JSON, nothing was
\* decoded, dispatched or sent in answer, and the script is not in an error
\* state.
NDataLines(f) ==
    Cardinality({k \in DOMAIN FrameLines(f) :
                    StartsWith(FrameLines(f)[k], DataPrefix)})
C10_SingleLineFrameDropped ==
    (mode = "sse"
       /\ \A k \in DOMAIN FramesOf(consumed) :
            /\ NDataLines(FramesOf(consumed)[k]) <= 1
            /\ ~JsonLoads(FramePayload(FramesOf(consumed)[k])).ok) =>
        /\ decoded = <<>>
        /\ dispatched = <<>>
        /\ NReplies = 0
        /\ consumed # <<>> => exitCode \in {-1, 0, 130}

\* A step of the polling script at the top of its loop that is a fetch: not a
\* step of the remote and not an interrupt.
FetchStep ==
    /\ mode = "poll" /\ pc = "sleep"
    /\ store' = store /\ clock' = clock
    /\ ~interrupted'

\* Some user message of the log is above the cursor.
UserMessageWaiting ==
    \E i \in DOMAIN store :
        store[i].from = "user" /\ store[i].timestamp > last_ts

\* C11: polling mode, failed fetch: a fetch that fails dispatches nothing,
\* sends nothing and leaves the cursor where it was, with the script back at
\* its wait; until the next fetch the cursor stays at the since value of the
\* failed fetch, so that the next fetch asks with the same since value.
C11_FailedFetchSkipsCycle ==
    /\ [](lastFetch = "fail" =>
            /\ pc \in {"sleep", "disconnect", "exit"}
            /\ new_msgs = <<>>
            /\ last_ts = since)
    /\ [][(FetchStep /\ lastFetch' = "fail") =>
            /\ pc' = "sleep" /\ exitCode' = -1
            /\ UNCHANGED <<dispatched, sent, last_ts, msg>>
            /\ since' = last_ts]_vars
    /\ [][(FetchStep /\ lastFetch = "fail") => since' = since]_vars

\* C11 witness: a fetch has failed after an earlier cycle dispatched a message,
\* while a user message waits above the cursor.
C11_Witness ==
    /\ mode = "poll" /\ pc = "sleep" /\ lastFetch = "fail"
    /\ dispatched # <<>>
    /\ UserMessageWaiting

\* The last value decoded.
LastDecoded == decoded[Len(decoded)]

\* No message of the log has the origin "user".
NoUserInLog ==
    \A i \in DOMAIN store : Lacks(store[i], "from") \/ store[i].from # "user"

\* Every message of the log has an origin, and it is not "user".
OnlyAgentsInLog ==
    \A i \in DOMAIN store : ~Lacks(store[i], "from") /\ store[i].from # "user"

\* The step decodes a value of the stream whose origin is not "user".
DecodesOther ==
    /\ mode = "sse"
    /\ decoded' # decoded
    /\ decoded'[Len(decoded')].from # "user"

\* The step neither dispatches nor sends, and the script stays in its loop.
StaysQuiet ==
    /\ dispatched' = dispatched /\ sent' = sent
    /\ pc' \in {"sleep", "read", "lines"} /\ exitCode' = -1

\* C12: router classification, both modes: only events whose origin is "user"
\* are dispatched; a decoded value of the stream with another origin or none
\* (acknowledgement, agent message, number), and a fetch from a log that holds
\* no message of origin "user", cause no dispatch, no send and no exit.
C12_OnlyUserOriginActs ==
    /\ [](\A i \in DOMAIN dispatched : dispatched[i].from = "user")
    /\ [][DecodesOther => StaysQuiet]_vars
    /\ [][(FetchStep /\ NoUserInLog) => StaysQuiet]_vars

\* C12, the part the scripts do meet: the same, for a log all of whose messages
\* carry an origin.
C12_OriginBearingEvents ==
    /\ [](\A i \in DOMAIN dispatched : dispatched[i].from = "user")
    /\ [][DecodesOther => StaysQuiet]_vars
    /\ [][(FetchStep /\ OnlyAgentsInLog) => StaysQuiet]_vars

\* C13: polling mode, cursor invariant: the cursor is at or above the
\* timestamp of every message dispatched so far (and so, after a cycle, at the
\* maximum timestamp of the batch it processed), here even with a remote that
\* answers since as an exclusive lower bound.
C13_CursorCoversProcessed ==
    (mode = "poll" /\ sinceExclusive) =>
        \A i \in DOMAIN dispatched : last_ts >= dispatched[i].timestamp

\* The for loop is between two messages of one batch: the reply to msg has
\* just been sent and the next message of the same response is about to be
\* taken.
BetweenMessages == mode = "poll" /\ pc = "iter" /\ lastSend # "none"

\* C14: polling mode, dispatch order: of two messages of one fetch dispatched
\* one after the other, the second has a timestamp at or above the first's.
C14_AscendingDispatchOrder ==
    [][(BetweenMessages /\ dispatched' # dispatched) =>
            msg.timestamp <= msg'.timestamp]_vars

\* The bytes read so far that follow the last complete frame.
RECURSIVE OpenTail(_)
OpenTail(s) ==
    LET i == FirstTerminator(s)
    IN IF i = 0 THEN s ELSE OpenTail(SubSeq(s, i + 1, Len(s)))

\* The script is at work on the lines of a frame.
InFrame == pc \in {"lines", "reply", "farewell", "return"}

\* C15: streaming mode, no partial parse: the script works on lines only
\* while the bytes read so far end with the terminator of the frame in its
\* buffer; a value is decoded or dispatched only by such a step, which reads
\* nothing; and the values decoded never outnumber those of the complete
\* frames read, so the bytes of an open frame (also one left at the close of
\* the stream) yield nothing.
C15_NoPartialParse ==
    /\ []((mode = "sse" /\ InFrame) =>
            /\ EndsWith(buffer, <<NL, NL>>)
            /\ EndsWith(consumed, buffer))
    /\ []((mode = "sse") => Len(decoded) <= Len(OnePieceEvents(consumed)))
    /\ [][(mode = "sse" /\ (decoded' # decoded \/ dispatched' # dispatched)) =>
            /\ pc = "lines"
            /\ consumed' = consumed
            /\ EndsWith(consumed, <<NL, NL>>)]_vars

\* C15 witness: the stream was closed on an open frame after a complete one:
\* the script has left with the open frame's data line in its buffer, and has
\* decoded the one value of the complete frame.
C15_Witness ==
    /\ mode = "sse" /\ pc = "exit" /\ closed /\ ~interrupted
    /\ buffer = LineOpen
    /\ OpenTail(consumed) = LineOpen
    /\ Len(decoded) = 1

\* C16: streaming mode, frame buffer invariant: between frames the buffer
\* holds exactly the bytes read after the terminator of the last complete
\* frame, and the step that ends the extraction of a frame leaves it empty,
\* no byte having been read past that frame's terminator.
C16_BufferIsOpenTail ==
    /\ []((mode = "sse" /\ pc = "read") => buffer = OpenTail(consumed))
    /\ [][(mode = "sse" /\ InFrame /\ pc' = "read") =>
            /\ buffer' = <<>>
            /\ consumed' = consumed
            /\ OpenTail(consumed) = <<>>]_vars

\* C16 witness: after a frame was extracted and its value decoded, bytes of
\* the following frame are in the buffer and more wait in the socket.
C16_Witness ==
    /\ mode = "sse" /\ pc = "read"
    /\ Len(FramesOf(consumed)) = 1 /\ decoded # <<>>
    /\ buffer # <<>> /\ sockbuf # <<>>

\* The byte source reports the end of the stream to the next read.
AtEndOfStream ==
    /\ mode = "sse" /\ pc = "read"
    /\ closed /\ sockbuf = <<>> /\ wire = <<>>

\* C17: streaming mode, closed connection: at the end of the stream the only
\* step of the script (an interrupt aside) leaves the process with status 0
\* and without a read, a connect, a dispatch or a send; the script leaves its
\* read only so; and a process that has left takes no further step.
C17_ClosedEndsSession ==
    /\ [][(AtEndOfStream /\ ~interrupted') =>
            /\ pc' = "exit" /\ exitCode' = 0
            /\ UNCHANGED <<sent, dispatched, decoded, consumed, buffer,
                           connected>>]_vars
    /\ [][(mode = "sse" /\ pc = "read" /\ pc' = "exit") => AtEndOfStream]_vars
    /\ [][pc # "exit"]_vars

\* C17 witness: the stream was closed after a message was answered; the
\* process has left with the hello and that reply as its only sends.
C17_Witness ==
    /\ mode = "sse" /\ pc = "exit" /\ exitCode = 0
    /\ closed /\ ~interrupted
    /\ Len(dispatched) = 1 /\ Len(sent) = 2
    /\ sent[2] = EchoText(Ping)

\* The step is a send that fails.
FailedSend == sent' # sent /\ lastSend' = "fail"

\* C18: send failures are never retried: a send is one attempt, failed or
\* not; the sends after the hello never outnumber the dispatched messages by
\* more than the disconnect notice; a failed reply leaves the script in its
\* loop with the message not dispatched again, not queued again and (polling)
\* the cursor at its timestamp; a failed farewell is followed by the exit
\* with status 0.
C18_NoSendRetry ==
    /\ [](NReplies <= Len(dispatched))
    /\ [][sent' # sent => Len(sent') = Len(sent) + 1]_vars
    /\ [][(FailedSend /\ pc = "reply") =>
            /\ sent' = Append(sent, EchoText(msg.text))
            /\ pc' \in {"sleep", "iter", "read", "lines"} /\ exitCode' = -1
            /\ UNCHANGED <<dispatched, msg, new_msgs, lines, last_ts, since>>
            /\ mode = "poll" => last_ts = msg.timestamp]_vars
    /\ [][(FailedSend /\ pc = "farewell") =>
            /\ sent' = Append(sent, FarewellText)
            /\ pc' = "return"
            /\ UNCHANGED <<dispatched, msg>>]_vars
    /\ [][(pc = "return" /\ pc' # "return" /\ ~interrupted') =>
            /\ pc' = "exit" /\ exitCode' = 0
            /\ UNCHANGED <<sent, dispatched>>]_vars

\* C18 witness: the reply to the second of two dispatched messages has just
\* failed; the script is back at the top of its loop with three sends made.
C18_Witness ==
    /\ lastSend = "fail" /\ pc \in {"sleep", "read"}
    /\ Len(dispatched) = 2 /\ Len(sent) = 3
    /\ sent[3] = EchoText(dispatched[2].text)

\* The polling session has ended after a successful bootstrap.
PollSessionEnded == mode = "poll" /\ pc = "exit" /\ status = "open"

\* It ended by a termination match or by an interrupt.
EndedByRule ==
    \/ interrupted
    \/ /\ dispatched # <<>>
       /\ IsByeText(dispatched[Len(dispatched)].text)
       /\ exitCode = 0

\* Every message of the log has all its fields.
LogWellFormed == \A i \in DOMAIN store : store[i].lacks = "none"

\* A user message that matches the termination rule is in the batch the for
\* loop iterates.
ByeInBatch ==
    /\ mode = "poll" /\ pc = "iter"
    /\ \E k \in DOMAIN new_msgs :
        new_msgs[k].lacks = "none" /\ IsByeText(new_msgs[k].text)

\* C19: polling mode, loop progress: a failed fetch leaves the script at its
\* wait, whatever the number of failures before it, and a session that has
\* ended has ended by a termination match or by an interrupt.
C19_LoopEndsOnlyByRule ==
    /\ (mode = "poll" /\ lastFetch = "fail" /\ ~interrupted) => pc = "sleep"
    /\ PollSessionEnded => EndedByRule

\* C19, the part the script does meet: the same, while every message of the
\* log has all its fields.
C19_WellFormedLogLoop ==
    /\ (mode = "poll" /\ lastFetch = "fail" /\ ~interrupted) => pc = "sleep"
    /\ (PollSessionEnded /\ LogWellFormed) => EndedByRule

\* C19, under fairness of the script's steps: once a fetch has returned a user
\* message that matches the termination rule, the process ends.
C19_ByeEventuallyEnds == ByeInBatch ~> (pc = "exit")

\* C20: no payload ends a session abnormally: a process that has left with
\* status 1 has left at the bootstrap gate or (streaming) at the connect,
\* before any byte of the stream was read; once the loop runs, no listed
\* message and no decoded frame makes the process leave with an error.
C20_PayloadNeverEndsSession ==
    (pc = "exit" /\ exitCode = 1) =>
        \/ status # "open"
        \/ mode = "sse" /\ consumed = <<>>

\* C20 in streaming mode alone.
C20_FrameNeverEndsSession ==
    (mode = "sse" /\ pc = "exit" /\ exitCode = 1) =>
        (status # "open" \/ consumed = <<>>)

====
